---- MODULE Spec2Model ----
(***************************************************************************)
(* Model of the login flow controller of                                   *)
(* src/Frontend/src/auth/ui/LoginScreen.tsx (component LoginScreen) and of *)
(* the one guard of FacialRecognitionView (same file, lines 208-272).      *)
(*                                                                         *)
(* The component state (useState hooks) is the state of the model.  Every  *)
(* setTimeout is a record in the sequence "timers" (insertion order) with  *)
(* the time that remains until it fires.  Time is counted in units of      *)
(* 500 ms; Tick lets one unit pass, FireTimer(i) runs the callback of a    *)
(* timer that is due.  One action is one run of the JavaScript event loop: *)
(* a user event handler or a timer callback, with the re-render and the    *)
(* useEffect that follow it.                                               *)
(*                                                                         *)
(* Strings are sequences of one-character strings, so that length, slice   *)
(* and join are computed and not assumed.                                  *)
(***************************************************************************)
EXTENDS Integers, Sequences, FiniteSets, TLC

\* ------------------------------------------------------------------ bounds
\* A user event whose handler sets a timer is taken only while fewer than
\* MaxTimers timers of the kinds that handlers set (camera probe,
\* verification, focus, notification expiry) are pending.  Timer callbacks
\* are never held back.
MaxTimers == 2
\* onLogin invocations that are counted (the counter saturates there); once
\* that many have been made, no user event sets a timer any more.
MaxLogins == 2

\* ------------------------------------------------------- program constants
\* setTimeout delays, in units of 500 ms.
NotificationDelay == 5   \* 2500 ms
ProbeDelay == 6          \* 3000 ms
FacialRedirectDelay == 3 \* 1500 ms
VerifyDelay == 3         \* 1500 ms
CodeRedirectDelay == 2   \* 1000 ms
LoginDelay == 5          \* 2500 ms
FocusDelay == 1          \* 100 ms, rounded up to one unit
CodeLength == 6
DniLength == 8

Steps == {"INITIAL", "FACIAL_RECOGNITION", "MANUAL_DNI", "MANUAL_CODE", "SUCCESS"}

DigitChars == {"0", "1", "2", "3", "4", "5", "6", "7", "8", "9"}

\* '123456', the example code validateCode compares with.
ReferenceCode == <<"1", "2", "3", "4", "5", "6">>

\* useState(['', '', '', '', '', '']); cells are indexed 0..5 as in the code.
EmptyCode == [i \in 0..(CodeLength - 1) |-> ""]

NoFocus == -1
NoNotification == [message |-> "none", type |-> "none", dni |-> <<>>]

VARIABLES
    step,          \* useState<LoginStep>
    dni,           \* useState('')
    code,          \* useState([...]) : function 0..5 -> "" or one character
    isLoading,     \* useState(false)
    notification,  \* useState(null)
    focus,         \* index of the code input that has the DOM focus, or NoFocus
    timers,        \* pending setTimeout callbacks, in the order they were set
    loginCalls     \* number of times onLogin has been invoked

vars == <<step, dni, code, isLoading, notification, focus, timers, loginCalls>>

\* ------------------------------------------------------------ input sets
\* Values the DNI input hands to setDni: 7 digits, and 8 characters that are
\* not all digits.
DniInputs ==
    { <<"1", "2", "3", "4", "5", "6", "7">>,
      <<"1", "2", "3", "4", "5", "6", "7", "x">> }

\* Cells in which a digit other than the reference digit is also typed.
AltCells == {5}

\* e.target.value of the change event of cell i: empty (backspace), one
\* digit, a non-digit, and two characters (the previous content of the cell
\* followed by the key typed).
RawValues(i) ==
    { <<>>, <<"a">>, <<ReferenceCode[i + 1]>>,
      <<"9", ReferenceCode[i + 1]>>, <<ReferenceCode[i + 1], "a">> }
    \cup (IF i \in AltCells THEN {<<"9">>} ELSE {})

\* ------------------------------------------------------------ pure helpers
\* SliceLast taking the first character, as slice(0, 1) would.
SliceFirst(s) == IF Len(s) = 0 THEN "" ELSE s[1]

\* String.prototype.slice(-1): the last character, or the empty string.
SliceLast(s) == IF Len(s) = 0 THEN "" ELSE s[Len(s)]

\* HasNonDigit without the test: every character is let through.
HasNonDigitNever(ch) == FALSE

\* /\D/.test(value) on a value of at most one character.
HasNonDigit(ch) == ch # "" /\ ch \notin DigitChars

\* Array.prototype.join('') of the cells 0..upto of c.
RECURSIVE JoinUpTo(_, _)
JoinUpTo(c, upto) ==
    IF upto < 0 THEN <<>>
    ELSE JoinUpTo(c, upto - 1) \o (IF c[upto] = "" THEN <<>> ELSE <<c[upto]>>)

\* Join leaving out the last cell.
JoinWithoutLast(c) == JoinUpTo(c, CodeLength - 2)

Join(c) == JoinUpTo(c, CodeLength - 1)

\* newCode.every(d => d !== '')
EveryFilled(c) == \A k \in DOMAIN c : c[k] # ""

\* CodeMatches comparing the first five characters only.
CodeMatchesPrefix(entered) ==
    Len(entered) >= 5 /\ SubSeq(entered, 1, 5) = SubSeq(ReferenceCode, 1, 5)

\* enteredCode === '123456'
CodeMatches(entered) == entered = ReferenceCode

\* DniRejected asking for digits as well as for the length.
DniRejectedUnlessDigits(d) ==
    Len(d) # DniLength \/ \E k \in DOMAIN d : d[k] \notin DigitChars

\* dni.length !== 8
DniRejected(d) == Len(d) # DniLength

\* ------------------------------------------------------------------ timers
Delay(kind) ==
    CASE kind = "expiry" -> NotificationDelay
      [] kind = "probe" -> ProbeDelay
      [] kind = "facialRedirect" -> FacialRedirectDelay
      [] kind = "verify" -> VerifyDelay
      [] kind = "codeRedirect" -> CodeRedirectDelay
      [] kind = "login" -> LoginDelay
      [] kind = "focus" -> FocusDelay

\* A setTimeout just set.  fails is the cameraFails the probe callback
\* closes over, entered the enteredCode the verification callback closes
\* over.  stale and back are history: the step changed since the timer was
\* set; 'go back' left FACIAL_RECOGNITION since the timer was set.
NewTimer(kind, fails, entered) ==
    [kind |-> kind, rem |-> Delay(kind), fails |-> fails, entered |-> entered,
     stale |-> FALSE, back |-> FALSE]

Timer(kind) == NewTimer(kind, FALSE, <<>>)

\* The number of pending timers whose kind is in kinds.
Pending(tms, kinds) == Cardinality({k \in DOMAIN tms : tms[k].kind \in kinds})

\* The bounds stop user events only, never a callback.
MaySetTimer ==
    /\ Pending(timers, {"probe", "verify", "focus", "expiry"}) < MaxTimers
    /\ loginCalls < MaxLogins

\* The kinds of delayed effect that belong to the step that set them.
StepBound == {"probe", "facialRedirect", "verify", "codeRedirect"}

Remove(tms, i) == [k \in 1..(Len(tms) - 1) |-> IF k < i THEN tms[k] ELSE tms[k + 1]]

\* useEffect(..., [step, onLogin]): runs after a render in which step changed.
StepEffect(newStep) ==
    IF newStep = "MANUAL_CODE" THEN <<Timer("focus")>>
    ELSE IF newStep = "SUCCESS" THEN <<Timer("login")>>
    ELSE <<>>

\* The timers after a handler that leaves "rest" of the pending timers,
\* sets "added" and ends with step = newStep.  setStep with the current
\* value causes no render, so the effect does not run.
Schedule(rest, added, newStep, viaBack) ==
    LET changed == newStep # step
        old == [k \in DOMAIN rest |->
                  [rest[k] EXCEPT !.stale = @ \/ (changed /\ rest[k].kind \in StepBound),
                                  !.back = @ \/ (viaBack /\ rest[k].kind = "probe")]]
    IN old \o added \o (IF changed THEN StepEffect(newStep) ELSE <<>>)

\* The code inputs exist only while ManualCodeView is rendered.
FocusAfter(newStep, f) == IF newStep = "MANUAL_CODE" THEN f ELSE NoFocus

\* showNotification(message, type): the slot is replaced and an expiry is
\* set; nothing is cleared.
Shown(message, type, d) == [message |-> message, type |-> type, dni |-> d]

TypeOK ==
    /\ step \in Steps
    /\ dni \in DniInputs \cup {<<>>}
    /\ DOMAIN code = 0..(CodeLength - 1)
    /\ isLoading \in BOOLEAN
    /\ focus \in {NoFocus} \cup 0..(CodeLength - 1)
    /\ loginCalls \in 0..MaxLogins

Init ==
    /\ step = "INITIAL"
    /\ dni = <<>>
    /\ code = EmptyCode
    /\ isLoading = FALSE
    /\ notification = NoNotification
    /\ focus = NoFocus
    /\ timers = <<>>
    /\ loginCalls = 0

\* -------------------------------------------------------------- user events
\* GoBackTarget with the handler of ManualCodeView set to that of
\* ManualDniView.
GoBackTargetAllInitial(s) ==
    CASE s = "FACIAL_RECOGNITION" -> "INITIAL"
      [] s = "MANUAL_DNI" -> "INITIAL"
      [] s = "MANUAL_CODE" -> "INITIAL"

\* The predecessor each view's onGoBack sets (renderStep).
GoBackTarget(s) ==
    CASE s = "FACIAL_RECOGNITION" -> "INITIAL"
      [] s = "MANUAL_DNI" -> "INITIAL"
      [] s = "MANUAL_CODE" -> "MANUAL_DNI"

\* FacialRecognitionView: <button onClick={onGoBack} disabled={isLoading}>.
\* The views of the other steps are given onGoBack without a guard.
GoBackEnabled(s) ==
    CASE s = "FACIAL_RECOGNITION" -> ~isLoading
      [] s \in {"MANUAL_DNI", "MANUAL_CODE"} -> TRUE
      [] OTHER -> FALSE

\* SetStepOnly with a setCode of six empty cells added to the handler.
SetStepOnlyResetsCode(newStep, viaBack) ==
    /\ step' = newStep
    /\ timers' = Schedule(timers, <<>>, newStep, viaBack)
    /\ focus' = FocusAfter(newStep, focus)
    /\ code' = EmptyCode
    /\ UNCHANGED <<dni, isLoading, notification, loginCalls>>

\* SetStepOnly with a setNotification(null) added to the handler.
SetStepOnlyClearsNotification(newStep, viaBack) ==
    /\ step' = newStep
    /\ timers' = Schedule(timers, <<>>, newStep, viaBack)
    /\ focus' = FocusAfter(newStep, focus)
    /\ notification' = NoNotification
    /\ UNCHANGED <<dni, code, isLoading, loginCalls>>

\* A handler that only calls setStep(newStep).
SetStepOnly(newStep, viaBack) ==
    /\ step' = newStep
    /\ timers' = Schedule(timers, <<>>, newStep, viaBack)
    /\ focus' = FocusAfter(newStep, focus)
    /\ UNCHANGED <<dni, code, isLoading, notification, loginCalls>>

\* startFacialRecognition; cameraFails is Math.random() > 0.92.
StartFacialRecognition(cameraFails) ==
    /\ step = "INITIAL"
    /\ MaySetTimer
    /\ step' = "FACIAL_RECOGNITION"
    /\ isLoading' = TRUE
    /\ timers' = Schedule(timers, <<NewTimer("probe", cameraFails, <<>>)>>,
                          "FACIAL_RECOGNITION", FALSE)
    /\ focus' = FocusAfter("FACIAL_RECOGNITION", focus)
    /\ UNCHANGED <<dni, code, notification, loginCalls>>

\* onNavigateToManualDNI={() => setStep('MANUAL_DNI')}
NavigateToManualDNI ==
    /\ step = "INITIAL"
    /\ SetStepOnly("MANUAL_DNI", FALSE)

GoBackFacial ==
    /\ step = "FACIAL_RECOGNITION"
    /\ GoBackEnabled(step)
    /\ SetStepOnly(GoBackTarget(step), TRUE)

GoBackManualDni ==
    /\ step = "MANUAL_DNI"
    /\ GoBackEnabled(step)
    /\ SetStepOnly(GoBackTarget(step), FALSE)

GoBackManualCode ==
    /\ step = "MANUAL_CODE"
    /\ GoBackEnabled(step)
    /\ SetStepOnly(GoBackTarget(step), FALSE)

\* ManualDniView calls setDni with the content of its input; the user adds
\* characters to the input and removes none.
SetDni(v) ==
    /\ step = "MANUAL_DNI"
    /\ Len(dni) < Len(v)
    /\ dni' = v
    /\ UNCHANGED <<step, code, isLoading, notification, focus, timers,
                   loginCalls>>

HandleDniSubmit ==
    /\ step = "MANUAL_DNI"
    /\ IF DniRejected(dni)
       THEN /\ MaySetTimer
            /\ notification' = Shown("dniLength", "error", <<>>)
            /\ timers' = Schedule(timers, <<Timer("expiry")>>, step, FALSE)
            /\ UNCHANGED <<step, focus>>
       ELSE /\ MaySetTimer
            /\ notification' = Shown("sendingCode", "info", dni)
            /\ step' = "MANUAL_CODE"
            /\ timers' = Schedule(timers, <<Timer("expiry")>>, "MANUAL_CODE", FALSE)
            /\ focus' = FocusAfter("MANUAL_CODE", focus)
    /\ UNCHANGED <<dni, code, isLoading, loginCalls>>

\* ValidateCode without the early return for a short enteredCode.
ValidateCodeNoLengthCheck(entered) ==
    /\ MaySetTimer
    /\ isLoading' = TRUE
    /\ timers' = Schedule(timers, <<NewTimer("verify", FALSE, entered)>>, step, FALSE)
    /\ UNCHANGED notification

\* validateCode(enteredCode), called with step unchanged; the caller sets code.
ValidateCode(entered) ==
    IF Len(entered) < CodeLength
    THEN /\ MaySetTimer
         /\ notification' = Shown("codeIncomplete", "error", <<>>)
         /\ isLoading' = FALSE
         /\ timers' = Schedule(timers, <<Timer("expiry")>>, step, FALSE)
    ELSE /\ MaySetTimer
         /\ isLoading' = TRUE
         /\ timers' = Schedule(timers, <<NewTimer("verify", FALSE, entered)>>, step, FALSE)
         /\ UNCHANGED notification

\* The verify button of ManualCodeView: validateCode() with the default
\* argument code.join('').
ValidateCodeButton ==
    /\ step = "MANUAL_CODE"
    /\ ValidateCode(Join(code))
    /\ UNCHANGED <<step, dni, code, focus, loginCalls>>

\* FocusAfterBackspace without the codeRefs.current[i - 1]?.focus().
FocusAfterBackspaceStays(i, f) == f

\* if (i > 0) codeRefs.current[i - 1]?.focus()
FocusAfterBackspace(i, f) == IF i > 0 THEN i - 1 ELSE f

\* FocusAfterDigit without the codeRefs.current[i + 1]?.focus().
FocusAfterDigitStays(i, f) == f

\* if (value && i < 5) codeRefs.current[i + 1]?.focus()
FocusAfterDigit(i, f) == IF i < CodeLength - 1 THEN i + 1 ELSE f

\* Whether handleCodeChange goes on to validateCode after writing newCode[i].
AutoValidates(i, newCode) == i = CodeLength - 1 /\ EveryFilled(newCode)

\* handleCodeChange(e, i) with e.target.value = raw.  focus is the target of
\* the last codeRefs.current[..]?.focus() call.
HandleCodeChange(raw, i) ==
    LET value == SliceLast(raw)
        newCode == [code EXCEPT ![i] = value]
    IN /\ step = "MANUAL_CODE"
       /\ UNCHANGED <<step, dni, loginCalls>>
       /\ IF value = ""
          THEN /\ code' = newCode
               /\ focus' = FocusAfterBackspace(i, focus)
               /\ UNCHANGED <<isLoading, notification, timers>>
          ELSE IF HasNonDigit(value)
          THEN UNCHANGED <<code, focus, isLoading, notification, timers>>
          ELSE /\ code' = newCode
               /\ focus' = FocusAfterDigit(i, focus)
               /\ IF AutoValidates(i, newCode)
                  THEN ValidateCode(Join(newCode))
                  ELSE UNCHANGED <<isLoading, notification, timers>>

\* The cells the user of the flow types into: the first empty cell (from
\* left to right) and, while no timer is pending, the last cell out of
\* turn.  Backspace also empties the cell before the first empty one, while
\* no timer is pending.  The user leaves MANUAL_CODE with 'go back' only
\* when no cell or every cell is filled.
FirstEmpty(c) ==
    IF EveryFilled(c) THEN CodeLength - 1
    ELSE CHOOSE i \in DOMAIN c : c[i] = "" /\ \A k \in 0..(i - 1) : c[k] # ""

TypingCells(c) ==
    {FirstEmpty(c)} \cup (IF timers = <<>> THEN {CodeLength - 1} ELSE {})

\* The cell the user empties with backspace other than those typed into: the
\* last filled cell before the first empty one, while no timer is pending.
BackspaceCells(c) ==
    IF EveryFilled(c) \/ FirstEmpty(c) = 0 \/ timers # <<>> THEN {}
    ELSE {FirstEmpty(c) - 1}

\* The values the change event of cell i carries.
InputsAt(c, i) == IF i \in TypingCells(c) THEN RawValues(i) ELSE {<<>>}

LeavesCode(c) == c = EmptyCode \/ EveryFilled(c)

\* ------------------------------------------------------------------- time
\* A due timer runs before time goes on; of two due timers the one set
\* earlier runs first unless its delay is the longer one.
Due(i) ==
    /\ timers[i].rem = 0
    /\ \A k \in 1..(i - 1) :
          timers[k].rem = 0 => Delay(timers[k].kind) > Delay(timers[i].kind)

Tick ==
    /\ timers # <<>>
    /\ \A k \in DOMAIN timers : timers[k].rem > 0
    /\ timers' = [k \in DOMAIN timers |-> [timers[k] EXCEPT !.rem = @ - 1]]
    /\ UNCHANGED <<step, dni, code, isLoading, notification, focus,
                   loginCalls>>

\* () => setNotification(null)
FireExpiry(i) ==
    /\ timers[i].kind = "expiry"
    /\ notification' = NoNotification
    /\ timers' = Remove(timers, i)
    /\ UNCHANGED <<step, dni, code, isLoading, focus, loginCalls>>

\* ProbeStep without the setStep('MANUAL_DNI') of the failure branch.
ProbeStepStays(cameraFails, s) == s

\* The step the camera callback sets at once.
ProbeStep(cameraFails, s) == IF cameraFails THEN "MANUAL_DNI" ELSE s

\* The callback of startFacialRecognition's setTimeout.
FireProbe(i) ==
    LET newStep == ProbeStep(timers[i].fails, step)
    IN /\ timers[i].kind = "probe"
       /\ isLoading' = FALSE
       /\ notification' = IF timers[i].fails
                          THEN Shown("cameraError", "error", <<>>)
                          ELSE Shown("facialOk", "success", <<>>)
       /\ step' = newStep
       /\ timers' = Schedule(Remove(timers, i),
                             IF timers[i].fails
                             THEN <<Timer("expiry")>>
                             ELSE <<Timer("expiry"), Timer("facialRedirect")>>,
                             newStep, FALSE)
       /\ focus' = FocusAfter(newStep, focus)
       /\ UNCHANGED <<dni, code, loginCalls>>

\* () => setStep('SUCCESS'), set by the camera callback or by the
\* verification callback.
FireRedirect(i) ==
    /\ timers[i].kind \in {"facialRedirect", "codeRedirect"}
    /\ step' = "SUCCESS"
    /\ timers' = Schedule(Remove(timers, i), <<>>, "SUCCESS", FALSE)
    /\ focus' = FocusAfter("SUCCESS", focus)
    /\ UNCHANGED <<dni, code, isLoading, notification, loginCalls>>

\* VerifyTimers with the redirect set on a mismatch as well.
VerifyTimersAlwaysRedirect(matched) == <<Timer("expiry"), Timer("codeRedirect")>>

\* VerifyTimers without the setTimeout(() => setStep('SUCCESS'), 1000).
VerifyTimersNoRedirect(matched) == <<Timer("expiry")>>

\* The timers the verification callback sets: the expiry of the notification
\* it shows and, on a match, the redirect.
VerifyTimers(matched) ==
    IF matched THEN <<Timer("expiry"), Timer("codeRedirect")>>
    ELSE <<Timer("expiry")>>

\* FireVerify comparing code.join('') as it is when the callback runs, not
\* the enteredCode it closed over.
FireVerifyReadsCells(i) ==
    /\ timers[i].kind = "verify"
    /\ isLoading' = FALSE
    /\ IF CodeMatches(Join(code))
       THEN /\ notification' = Shown("codeOk", "success", <<>>)
            /\ timers' = Schedule(Remove(timers, i), VerifyTimers(TRUE),
                                  step, FALSE)
            /\ UNCHANGED <<code, focus>>
       ELSE /\ notification' = Shown("codeWrong", "error", <<>>)
            /\ code' = EmptyCode
            /\ focus' = IF step = "MANUAL_CODE" THEN 0 ELSE focus
            /\ timers' = Schedule(Remove(timers, i), VerifyTimers(FALSE),
                                  step, FALSE)
    /\ UNCHANGED <<step, dni, loginCalls>>

\* The callback of validateCode's setTimeout.
FireVerify(i) ==
    /\ timers[i].kind = "verify"
    /\ isLoading' = FALSE
    /\ IF CodeMatches(timers[i].entered)
       THEN /\ notification' = Shown("codeOk", "success", <<>>)
            /\ timers' = Schedule(Remove(timers, i), VerifyTimers(TRUE),
                                  step, FALSE)
            /\ UNCHANGED <<code, focus>>
       ELSE /\ notification' = Shown("codeWrong", "error", <<>>)
            /\ code' = EmptyCode
            /\ focus' = IF step = "MANUAL_CODE" THEN 0 ELSE focus
            /\ timers' = Schedule(Remove(timers, i), VerifyTimers(FALSE),
                                  step, FALSE)
    /\ UNCHANGED <<step, dni, loginCalls>>

\* () => codeRefs.current[0]?.focus(), set by the step effect.
FireFocus(i) ==
    /\ timers[i].kind = "focus"
    /\ focus' = IF step = "MANUAL_CODE" THEN 0 ELSE focus
    /\ timers' = Remove(timers, i)
    /\ UNCHANGED <<step, dni, code, isLoading, notification, loginCalls>>

\* () => { onLogin("test_user", "test_pass"); }, set by the step effect.
FireLogin(i) ==
    /\ timers[i].kind = "login"
    /\ loginCalls' = IF loginCalls < MaxLogins THEN loginCalls + 1 ELSE loginCalls
    /\ timers' = Remove(timers, i)
    /\ UNCHANGED <<step, dni, code, isLoading, notification, focus>>

FireTimer(i) ==
    /\ Due(i)
    /\ \/ FireExpiry(i)
       \/ FireProbe(i)
       \/ FireRedirect(i)
       \/ FireVerify(i)
       \/ FireFocus(i)
       \/ FireLogin(i)

Fire == \E i \in DOMAIN timers : FireTimer(i)

GoBack == GoBackFacial \/ GoBackManualDni \/ GoBackManualCode

Next ==
    \/ \E f \in BOOLEAN : StartFacialRecognition(f)
    \/ NavigateToManualDNI
    \/ GoBackFacial
    \/ GoBackManualDni
    \/ LeavesCode(code) /\ GoBackManualCode
    \/ \E v \in DniInputs : SetDni(v)
    \/ HandleDniSubmit
    \/ \E i \in TypingCells(code) \cup BackspaceCells(code) :
          \E raw \in InputsAt(code, i) : HandleCodeChange(raw, i)
    \/ ValidateCodeButton
    \/ Tick
    \/ Fire

Spec == Init /\ [][Next]_vars

\* The event loop runs every callback that is due, and time goes on.
FairSpec == Spec /\ WF_vars(Tick) /\ WF_vars(Fire)

\* ================================================================== claims
\* The timer i whose callback runs in this step is of one of the kinds.
Fires(i, kinds) == FireTimer(i) /\ timers[i].kind \in kinds

\* ------------------------------------------------------------------- C1
\* C1: when 'go back' has left FACIAL_RECOGNITION while the camera probe was
\* pending, the probe's callback, when it runs, changes neither step nor
\* notification.
C1_AbandonedProbeIsSilent ==
    [][\A i \in DOMAIN timers :
          (Fires(i, {"probe"}) /\ timers[i].back)
             => (step' = step /\ notification' = notification)]_vars

\* ------------------------------------------------------------------- C2
\* C2: a delayed effect (camera probe, redirect to SUCCESS, verification
\* outcome) that runs after the step has changed since it was set leaves
\* step, code, isLoading and notification unchanged.
C2_StaleEffectIsNoOp ==
    [][\A i \in DOMAIN timers :
          (Fires(i, StepBound) /\ timers[i].stale)
             => UNCHANGED <<step, code, isLoading, notification>>]_vars

\* ------------------------------------------------------------------- C3
\* The edges of the transition table.
TableEdges ==
    { <<"INITIAL", "FACIAL_RECOGNITION">>, <<"INITIAL", "MANUAL_DNI">>,
      <<"FACIAL_RECOGNITION", "MANUAL_DNI">>, <<"FACIAL_RECOGNITION", "SUCCESS">>,
      <<"FACIAL_RECOGNITION", "INITIAL">>, <<"MANUAL_DNI", "MANUAL_CODE">>,
      <<"MANUAL_DNI", "INITIAL">>, <<"MANUAL_CODE", "SUCCESS">>,
      <<"MANUAL_CODE", "MANUAL_DNI">> }

\* C3: every change of step is an edge of the transition table.
C3_OnlyTableEdges == [][step' # step => <<step, step'>> \in TableEdges]_vars

\* ------------------------------------------------------------------- C4
\* The predecessor the transition table gives for 'go back'.
TablePredecessor ==
    [s \in {"FACIAL_RECOGNITION", "MANUAL_DNI", "MANUAL_CODE"} |->
        IF s = "MANUAL_CODE" THEN "MANUAL_DNI" ELSE "INITIAL"]

\* C4: 'go back' sets step to the table's predecessor of the current step:
\* INITIAL from FACIAL_RECOGNITION and from MANUAL_DNI, MANUAL_DNI from
\* MANUAL_CODE, and changes nothing else of the flow state.
C4_GoBackLandsOnPredecessor ==
    [][GoBack => /\ step \in DOMAIN TablePredecessor
                 /\ step' = TablePredecessor[step]
                 /\ UNCHANGED <<dni, code, isLoading, notification>>]_vars

\* 'go back' has left MANUAL_CODE with a verification pending and then
\* MANUAL_DNI: both predecessors have been taken.
C4_Witness ==
    /\ step = "INITIAL"
    /\ \E i \in DOMAIN timers : timers[i].kind = "verify" /\ timers[i].stale

\* ------------------------------------------------------------------- C5
\* C5: a showNotification that follows another before the first one's expiry
\* has fired cancels that expiry: at most one notification expiry is pending.
C5_OneExpiryPending == Pending(timers, {"expiry"}) <= 1

\* ------------------------------------------------------------------- C6
\* C6: no expiry set by an earlier showNotification clears the notification
\* of a later one: an expiry that runs while the expiry of a later
\* showNotification is pending and not yet due leaves the notification as
\* it is.
C6_EarlierExpiryClearsNothing ==
    [][\A i \in DOMAIN timers :
          (Fires(i, {"expiry"})
             /\ \E k \in DOMAIN timers :
                   k > i /\ timers[k].kind = "expiry" /\ timers[k].rem > 0)
             => notification' = notification]_vars

\* ------------------------------------------------------------------- C7
\* C7: onLogin is invoked at most once in a flow.
C7_LoginAtMostOnce == loginCalls <= 1

\* ------------------------------------------------------------------- C8
\* C8: SUCCESS is terminal: once step = SUCCESS no event changes step.
C8_SuccessIsTerminal == [][step = "SUCCESS" => step' = "SUCCESS"]_vars

\* ------------------------------------------------------------------- C9
\* A verification of the code "entered" is pending.
VerifyPending(entered) ==
    \E i \in DOMAIN timers : timers[i].kind = "verify" /\ timers[i].entered = entered

\* C9: the outcome of a verification of "123456" shows a success
\* notification and sets the redirect, and a pending verification of
\* "123456" leads to step = SUCCESS.
C9_ReferenceCodeLeadsToSuccess ==
    /\ [][\A i \in DOMAIN timers :
             (Fires(i, {"verify"}) /\ timers[i].entered = ReferenceCode)
                => /\ notification'.type = "success"
                   /\ Pending(timers', {"codeRedirect"})
                         = Pending(timers, {"codeRedirect"}) + 1]_vars
    /\ (VerifyPending(ReferenceCode) ~> step = "SUCCESS")

\* SUCCESS has been reached while the notification of the matching
\* verification is still shown.
C9_Witness == step = "SUCCESS" /\ notification.message = "codeOk"

\* ------------------------------------------------------------------ C10
\* C10: the outcome of a verification of a 6-character string other than
\* "123456" that runs in MANUAL_CODE shows an error notification, empties the
\* 6 cells, puts the focus on cell 0, leaves step = MANUAL_CODE and sets no
\* redirect to SUCCESS.
C10_MismatchClearsAndStays ==
    [][\A i \in DOMAIN timers :
          (/\ Fires(i, {"verify"})
           /\ Len(timers[i].entered) = CodeLength
           /\ timers[i].entered # ReferenceCode
           /\ step = "MANUAL_CODE")
             => /\ notification'.type = "error"
                /\ code' = EmptyCode
                /\ focus' = 0
                /\ step' = "MANUAL_CODE"
                /\ Pending(timers', {"codeRedirect", "login"})
                      = Pending(timers, {"codeRedirect", "login"})]_vars

\* The outcome of a mismatching verification has run in MANUAL_CODE after
\* the focus had moved to cell 5.
C10_Witness ==
    /\ step = "MANUAL_CODE"
    /\ notification.message = "codeWrong"
    /\ code = EmptyCode
    /\ focus = 0

\* ------------------------------------------------------------------ C11
\* C11: handleDniSubmit with a dni whose length is not 8 shows an error
\* notification and leaves step = MANUAL_DNI; with a dni of length 8,
\* whatever its characters, it shows an info notification and sets
\* step = MANUAL_CODE.
C11_DniSubmitByLength ==
    [][HandleDniSubmit =>
          IF Len(dni) = DniLength
          THEN notification'.type = "info" /\ step' = "MANUAL_CODE"
          ELSE notification'.type = "error" /\ step' = "MANUAL_DNI"]_vars

\* A dni of 8 characters that are not all digits has been submitted and
\* accepted.
C11_Witness ==
    /\ step = "MANUAL_CODE"
    /\ notification.type = "info"
    /\ Len(notification.dni) = DniLength
    /\ \E k \in DOMAIN notification.dni : notification.dni[k] \notin DigitChars

\* ------------------------------------------------------------------ C12
\* The character of an input: the last one of e.target.value.
InputChar(raw) == raw[Len(raw)]

\* C12: for every cell index 0..5, handleCodeChange with an input whose
\* character is neither a digit nor empty leaves the code cells unchanged
\* and starts no verification.
C12_NonDigitRejected ==
    [][\A i \in 0..(CodeLength - 1) : \A raw \in RawValues(i) :
          (/\ HandleCodeChange(raw, i)
           /\ raw # <<>>
           /\ InputChar(raw) \notin DigitChars)
             => UNCHANGED <<code, isLoading, timers>>]_vars

\* Cell 0 holds a digit and cell 1 is the next to be typed into: a state in
\* which a rejected input leaves a code that is not empty.
C12_Witness ==
    /\ step = "MANUAL_CODE"
    /\ code[0] = "1"
    /\ code[1] = ""
    /\ focus = 1

\* ------------------------------------------------------------------ C13
\* The 6 cells of c in index order, as a string.
CellsInOrder(c) == [k \in 1..CodeLength |-> c[k - 1]]

\* C13: a digit entered at index 5 that leaves all 6 cells filled sets
\* exactly one verification, of the 6 cells in index order.
C13_LastDigitVerifiesOnce ==
    [][\A raw \in RawValues(CodeLength - 1) :
          (/\ HandleCodeChange(raw, CodeLength - 1)
           /\ raw # <<>>
           /\ InputChar(raw) \in DigitChars
           /\ EveryFilled(code'))
             => /\ Len(timers') = Len(timers) + 1
                /\ timers'[Len(timers')].kind = "verify"
                /\ timers'[Len(timers')].entered = CellsInOrder(code')
                /\ Pending(timers', {"verify"}) = Pending(timers, {"verify"}) + 1]_vars

\* 1,2,3,4,5,6 have been entered into cells 0..5 and exactly one
\* verification, of "123456", is pending.
C13_Witness ==
    /\ CellsInOrder(code) = ReferenceCode
    /\ Pending(timers, {"verify"}) = 1
    /\ VerifyPending(ReferenceCode)

\* ------------------------------------------------------------------ C14
\* C14: in MANUAL_CODE a digit input that fills the last empty cell sets a
\* verification, whichever cell index received it.
C14_AnyLastCellVerifies ==
    [][\A i \in 0..(CodeLength - 1) : \A raw \in RawValues(i) :
          (/\ HandleCodeChange(raw, i)
           /\ raw # <<>>
           /\ InputChar(raw) \in DigitChars
           /\ ~EveryFilled(code)
           /\ EveryFilled(code'))
             => Pending(timers', {"verify"}) = Pending(timers, {"verify"}) + 1]_vars

\* ------------------------------------------------------------------ C15
\* C15: isLoading = true only while the outcome of a camera probe or of a
\* verification is pending, and no step change leaves isLoading true that
\* was true before it.
C15_LoadingOnlyWhilePending ==
    /\ [](isLoading => Pending(timers, {"probe", "verify"}) > 0)
    /\ [][(isLoading /\ step' # step) => ~isLoading']_vars

\* ------------------------------------------------------------------ C16
\* C16: the code has exactly 6 cells and each cell is empty or one character
\* in '0'..'9'.
C16_CodeShape ==
    /\ DOMAIN code = 0..(CodeLength - 1)
    /\ \A k \in DOMAIN code : code[k] = "" \/ code[k] \in DigitChars

\* Cells have been typed into again after the outcome of a mismatching
\* verification emptied them.
C16_Witness ==
    /\ notification.message = "codeWrong"
    /\ code # EmptyCode
    /\ \E i \in DOMAIN timers : timers[i].kind = "verify"

\* ------------------------------------------------------------------ C17
\* The time since the timer was set.
Elapsed(t) == Delay(t.kind) - t.rem

\* Timers k and i were set by one callback: the expiry of its
\* showNotification and, right after it, its redirect to SUCCESS.
SetByOneCallback(k, i) ==
    /\ k = i - 1
    /\ timers[k].kind = "expiry"
    /\ timers[i].kind \in {"facialRedirect", "codeRedirect"}
    /\ Elapsed(timers[k]) = Elapsed(timers[i])

\* C17: effects set by one callback fire in the order they were set: when a
\* redirect to SUCCESS fires, the notification expiry set before it by the
\* same callback is no longer pending.
C17_FireInSchedulingOrder ==
    [][\A i \in DOMAIN timers :
          FireTimer(i) => \A k \in 1..(i - 1) : ~SetByOneCallback(k, i)]_vars

\* ------------------------------------------------------------------ C18
\* C18: the callback of a camera probe clears isLoading and, on failure,
\* sets step = MANUAL_DNI with an error notification, on success shows a
\* success notification and sets the redirect; and FACIAL_RECOGNITION leads
\* to MANUAL_DNI or SUCCESS: the flow never stays there.
C18_ProbeResolves ==
    /\ [][\A i \in DOMAIN timers :
             Fires(i, {"probe"})
                => /\ ~isLoading'
                   /\ IF timers[i].fails
                      THEN step' = "MANUAL_DNI" /\ notification'.type = "error"
                      ELSE /\ notification'.type = "success"
                           /\ Pending(timers', {"facialRedirect"})
                                 = Pending(timers, {"facialRedirect"}) + 1]_vars
    /\ (step = "FACIAL_RECOGNITION" ~> step \in {"MANUAL_DNI", "SUCCESS"})

\* A failing probe has moved the flow to MANUAL_DNI.
C18_Witness ==
    /\ step = "MANUAL_DNI"
    /\ notification.message = "cameraError"
    /\ ~isLoading

\* ------------------------------------------------------------------ C19
\* C19: validateCode with fewer than 6 characters shows an error
\* notification, sets no verification, leaves step and code unchanged and
\* leaves isLoading false.
C19_ShortCodeRejected ==
    [][(ValidateCodeButton /\ Len(Join(code)) < CodeLength)
          => /\ notification'.type = "error"
             /\ Pending(timers', {"verify"}) = Pending(timers, {"verify"})
             /\ UNCHANGED <<step, code>>
             /\ ~isLoading']_vars

\* validateCode has rejected a code of which some but not all cells are
\* filled.
C19_Witness ==
    /\ step = "MANUAL_CODE"
    /\ notification.message = "codeIncomplete"
    /\ code # EmptyCode
    /\ ~EveryFilled(code)

\* ------------------------------------------------------------------ C20
\* C20: an action that only changes step ('go back' from any step, choose
\* manual, a redirect to SUCCESS) leaves the notification unchanged; the
\* notification changes only when an expiry runs or when a showNotification
\* sets a new expiry.
C20_StepChangeKeepsNotification ==
    [][/\ (GoBack \/ NavigateToManualDNI
             \/ \E i \in DOMAIN timers : Fires(i, {"facialRedirect", "codeRedirect"}))
            => notification' = notification
       /\ notification' # notification
            => \/ \E i \in DOMAIN timers : Fires(i, {"expiry"})
               \/ Pending(timers', {"expiry"}) = Pending(timers, {"expiry"}) + 1]_vars

\* 'go back' has left MANUAL_DNI while the notification of the failed camera
\* probe was shown.
C20_Witness ==
    /\ step = "INITIAL"
    /\ notification.message = "cameraError"

\* ------------------------------------------------------------------ C21
\* C21: an empty input at index i empties cell i and no other cell, moves
\* the focus to i - 1 if i > 0 and leaves it where it is at i = 0, and
\* starts no verification.
C21_BackspaceClearsOneCell ==
    [][\A i \in 0..(CodeLength - 1) :
          HandleCodeChange(<<>>, i)
             => /\ code' = [code EXCEPT ![i] = ""]
                /\ focus' = (IF i > 0 THEN i - 1 ELSE focus)
                /\ UNCHANGED <<isLoading, timers>>]_vars

\* The last cell has been emptied after all 6 cells were filled and their
\* verification was set.
C21_Witness ==
    /\ step = "MANUAL_CODE"
    /\ code[CodeLength - 1] = ""
    /\ \A k \in 0..(CodeLength - 2) : code[k] # ""
    /\ focus = CodeLength - 2
    /\ \E i \in DOMAIN timers :
          /\ timers[i].kind = "verify"
          /\ \A k \in 0..(CodeLength - 2) : timers[i].entered[k + 1] = code[k]

\* ------------------------------------------------------------------ C22
\* C22: an input of one digit at index i sets cell i to that digit and no
\* other cell, moves the focus to i + 1 if i < 5 and leaves it where it is
\* at i = 5.
C22_DigitSetsOneCell ==
    [][\A i \in 0..(CodeLength - 1) : \A raw \in RawValues(i) :
          (HandleCodeChange(raw, i) /\ Len(raw) = 1 /\ raw[1] \in DigitChars)
             => /\ code' = [code EXCEPT ![i] = raw[1]]
                /\ focus' = (IF i < 5 THEN i + 1 ELSE focus)]_vars

\* The digit 9 has been entered into cell 5 after the focus had advanced
\* cell by cell to cell 5.
C22_Witness ==
    /\ step = "MANUAL_CODE"
    /\ EveryFilled(code)
    /\ code[CodeLength - 1] = "9"
    /\ focus = CodeLength - 1

\* ------------------------------------------------------------------ C23
\* The callback that runs in this step is that of a camera probe that
\* succeeded or of a verification of exactly "123456".
SuccessOutcome ==
    \E i \in DOMAIN timers :
       \/ Fires(i, {"probe"}) /\ ~timers[i].fails
       \/ Fires(i, {"verify"}) /\ timers[i].entered = ReferenceCode

\* C23: step becomes SUCCESS only through a redirect, a redirect is set only
\* by the outcome of a camera probe that succeeded or of a verification of
\* exactly "123456", the onLogin timer is set only when step becomes
\* SUCCESS, and onLogin is invoked only by that timer.
C23_SuccessOnlyBySuccessOutcome ==
    [][/\ (step' = "SUCCESS" /\ step # "SUCCESS")
            => \E i \in DOMAIN timers : Fires(i, {"facialRedirect", "codeRedirect"})
       /\ Pending(timers', {"facialRedirect", "codeRedirect"})
             > Pending(timers, {"facialRedirect", "codeRedirect"})
            => SuccessOutcome
       /\ Pending(timers', {"login"}) > Pending(timers, {"login"})
            => (step' = "SUCCESS" /\ step # "SUCCESS")
       /\ loginCalls' # loginCalls
            => \E i \in DOMAIN timers : Fires(i, {"login"})]_vars

\* onLogin has been invoked once, after step became SUCCESS.
C23_Witness == step = "SUCCESS" /\ loginCalls = 1

\* ------------------------------------------------------------------ C24
\* C24: the outcome of a verification is a match exactly when the string
\* validateCode was invoked with is "123456", whatever the cells hold when
\* the outcome runs.
C24_OutcomeByCapturedCode ==
    [][\A i \in DOMAIN timers :
          Fires(i, {"verify"})
             => (notification'.type = "success" <=> timers[i].entered = ReferenceCode)]_vars

\* The verification of "123456" has just ended in a match although the
\* cells were edited to another code, whose verification was set while the
\* first one was pending and is still pending.
C24_Witness ==
    /\ notification.message = "codeOk"
    /\ \E i \in DOMAIN timers :
          timers[i].kind = "codeRedirect" /\ timers[i].rem = CodeRedirectDelay
    /\ \E i \in DOMAIN timers :
          /\ timers[i].kind = "verify"
          /\ timers[i].rem < VerifyDelay
          /\ timers[i].entered # ReferenceCode
          /\ timers[i].entered = CellsInOrder(code)

\* ------------------------------------------------------------------ C25
\* The callback that runs in this step is that of a verification of a
\* string other than "123456".
MismatchOutcome ==
    \E i \in DOMAIN timers :
       Fires(i, {"verify"}) /\ timers[i].entered # ReferenceCode

\* C25: the code cells change only in handleCodeChange and in the outcome of
\* a mismatching verification, and every change of step leaves code and dni
\* unchanged.
C25_CodeAndDniFrame ==
    [][/\ code' # code
            => \/ MismatchOutcome
               \/ \E i \in 0..(CodeLength - 1) : \E raw \in RawValues(i) :
                     HandleCodeChange(raw, i)
       /\ step' # step => UNCHANGED <<code, dni>>]_vars

\* MANUAL_CODE has been entered again, and no cell typed into since, with
\* the 6 digits typed before 'go back' still in the cells.
C25_Witness ==
    /\ step = "MANUAL_CODE"
    /\ EveryFilled(code)
    /\ focus = NoFocus
    /\ dni # <<>>
====
